---- MODULE Spec2Model ----
(***************************************************************************)
(* oidc-jwt-fetcher: a batch job that fetches an OAuth2 client-credentials *)
(* token and publishes it as a Secret in Kubernetes namespaces.            *)
(*                                                                         *)
(* Two Go programs of the repository are modelled:                         *)
(*   "cw"  the cluster-wide program (src/unnamed/part_003, lines 1-322):   *)
(*         getOIDCToken with retries, listNamespaces, withRetries around   *)
(*         manageNamespaceSecret, errors aggregated over the namespaces;   *)
(*   "tn"  the TARGET_NAMESPACES program (src/unnamed/part_003, lines      *)
(*         324-611): fetchOIDCToken (one attempt), explicit or listed      *)
(*         namespaces, createOrUpdateSecret (Get, then Create or Patch),   *)
(*         log.Fatalf on the first failure, a shutdown signal cancelling   *)
(*         the context.                                                    *)
(* The token endpoint and the cluster API server are the environment: each *)
(* request's answer is chosen nondeterministically.                        *)
(***************************************************************************)
EXTENDS Integers, Sequences, FiniteSets, TLC

VARIABLES
    variant,      \* which program runs: "cw", "tn", "sn1", "sn2" or "sh"
    env,          \* the environment variables and the client-secret file
    scope,        \* the scope setting: SCOPE ("cw", "sn1", "sn2"), OIDC_SCOPES ("tn")
    form,         \* the form fields of the last token request: <<name, value>> pairs
    getErr,       \* the error of the last Secret Get: "" when it found the Secret
    initial,      \* the cluster's Secrets as the run found them
    pc,           \* the program's position
    i,            \* getOIDCToken's / withRetries' loop counter
    resp,         \* getOIDCToken: the last *http.Response (body stream state)
    lastError,    \* getOIDCToken / withRetries: lastError
    ret,          \* the value returned by the token function: [token, err]
    httpLog,      \* the responses the endpoint sent to the current token call
    sleeps,       \* the delays (seconds) this process has slept, in order
    requests,     \* token requests sent by this process
    token,        \* run() / main(): the fetched token
    namespaces,   \* the resolved target list
    idx,          \* position of the namespace loop in namespaces (from 1)
    errorList,    \* manageSecretsClusterWide: the namespaces appended to errorList
    successCount, \* manageSecretsClusterWide: successCount
    runErr,       \* the error main() reports (Nil when none)
    exitCode,     \* the process's exit code, Running before it exits
    cancelled,    \* "tn": the signal context is cancelled
    secrets,      \* the cluster: each namespace's Secret of the managed name
    clusterNs,    \* the cluster: the namespace names a List returns, in order
    api,          \* per namespace: the Secret requests this run has issued
    outcome,      \* per namespace: pending, created, updated, unchanged, failed
    listCalls,    \* the namespace List requests this run has issued
    run,          \* the number of the CronJob's current run (from 1)
    prev          \* the previous run's token and outcomes

tokenVars == <<i, resp, lastError, ret, httpLog, sleeps, requests>>
runVars == <<token, namespaces, idx, errorList, successCount, runErr, exitCode>>
clusterVars == <<secrets, clusterNs>>
ghostVars == <<api, outcome, listCalls>>
cronVars == <<run, prev>>
vars == <<variant, env, scope, form, getErr, initial, pc, tokenVars, runVars, cancelled, clusterVars, ghostVars, cronVars>>

(***************************************************************************)
(* Program constants                                                       *)
(***************************************************************************)
maxRetries == 3
baseRetryDelay == 2
StatusOK == 200

(***************************************************************************)
(* The token endpoint                                                      *)
(***************************************************************************)
Tokens == {"t1", "t2"}

TokenJSON(t) == IF t = "t1" THEN "{\"access_token\":\"t1\"}"
                ELSE "{\"access_token\":\"t2\"}"

\* Bodies an endpoint may send: nothing, a text that is no JSON, a JSON object
\* without access_token, one with an empty access_token, one with a token.
Bodies == {"", "oops", "{\"error\":\"invalid_client\"}", "{\"access_token\":\"\"}"}
            \cup {TokenJSON(t) : t \in Tokens}

\* Bodies sent with a status other than 200 (one of them a token document).
ErrorBodies == {"", "oops", TokenJSON("t1")}

ErrorStatuses == {401, 500}

TransportError == [err |-> TRUE, status |-> 0, body |-> ""]

\* What one request to the endpoint may bring: no response at all, a 200 with
\* any body, another status with an error body.
Responses == {TransportError}
               \cup {[err |-> FALSE, status |-> StatusOK, body |-> b] : b \in Bodies}
               \cup {[err |-> FALSE, status |-> s, body |-> b] : s \in ErrorStatuses, b \in ErrorBodies}

\* json.NewDecoder(resp.Body).Decode(&tokenResp) with
\* TokenResponse{AccessToken string `json:"access_token"`}.
JsonDecode(body) ==
    CASE body = ""     -> [err |-> TRUE,  AccessToken |-> ""]
      [] body = "oops" -> [err |-> TRUE,  AccessToken |-> ""]
      [] body = "{\"error\":\"invalid_client\"}" -> [err |-> FALSE, AccessToken |-> ""]
      [] body = "{\"access_token\":\"\"}"        -> [err |-> FALSE, AccessToken |-> ""]
      [] body = TokenJSON("t1") -> [err |-> FALSE, AccessToken |-> "t1"]
      [] body = TokenJSON("t2") -> [err |-> FALSE, AccessToken |-> "t2"]

(***************************************************************************)
(* Errors and results                                                      *)
(***************************************************************************)
Err(kind, code, body) == [kind |-> kind, code |-> code, body |-> body, list |-> <<>>]
\* fmt.Errorf("completed with %d errors: %v", len(errorList), errorList)
ErrList(kind, l) == [kind |-> kind, code |-> Len(l), body |-> "", list |-> l]
Nil == Err("nil", 0, "")

Result(tok, e) == [token |-> tok, err |-> e]
NoResult == Result("", Err("pending", 0, ""))

\* An *http.Response as the program holds it: the status and the body stream,
\* which yields its content once and nothing after it was read or closed.
NoResp == [status |-> 0, body |-> "", open |-> FALSE]
RespOf(r) == [status |-> r.status, body |-> r.body, open |-> TRUE]

\* readResponseBody: io.ReadAll, then (deferred) body.Close().
readResponseBody(r) ==
    [data |-> IF r.open THEN r.body ELSE "",
     resp |-> [r EXCEPT !.body = "", !.open = FALSE]]

\* What the stream still yields to a reader (json.Decoder, io.ReadAll).
StreamContent(r) == IF r.open THEN r.body ELSE ""

(***************************************************************************)
(* Configuration                                                           *)
(***************************************************************************)
\* The state of the client secret: for "cw" CLIENT_SECRET_FILE is unset, names
\* a file that does not exist, names a file that cannot be read, or is fine;
\* for "tn" OIDC_CLIENT_SECRET is unset or set.
SecretStates == {"unset", "missing", "unreadable", "ok"}

\* TARGET_NAMESPACES values ("tn"), as sequences of characters.
TargetStrings ==
    { <<>>,
      <<"a">>,
      <<"a", ",", "b">>,
      <<"a", ",", "b", ",", "c">>,
      <<"b", ",", "b">>,
      <<"a", ",", " ", ",", "b", ",">>,
      <<" ", ",", " ">> }

Envs(v) ==
    [url : BOOLEAN, clientId : BOOLEAN,
     secret : IF v = "cw" THEN SecretStates ELSE {"unset", "ok"},
     kube : BOOLEAN,
     targets : IF v = "cw" THEN {<<>>} ELSE TargetStrings]

EnvValid(e) == e.url /\ e.clientId /\ e.secret = "ok"

\* The scope setting: the variable is not set, set to the empty string, or
\* set to a scope.
ScopeSettings == {"unset", "", "openid"}

\* "tn", line 350: defaultScopes.
defaultScopes == "openid"

\* The scope the program reads: os.Getenv("SCOPE") is empty for a variable
\* that is not set (part_003 line 111, main.go lines 95 and 291);
\* getEnv("OIDC_SCOPES", defaultScopes) takes the default only for a variable
\* that is not set (part_003 lines 379 and 456-462).
ConfiguredScope(v, s) ==
    IF s # "unset" THEN s
    ELSE IF v = "tn" THEN defaultScopes ELSE ""

\* The form of the token request: part_003 lines 105-113 (values.Add("scope")
\* for a non-empty SCOPE only; main.go lines 89-97 and 285-293 alike) and
\* lines 465-469 (data.Set("scope", scopes) in every case).
requestForm(v, e, s) ==
    {<<"client_id", "id">>, <<"client_secret", "secret">>,
     <<"grant_type", "client_credentials">>}
      \cup (IF v = "tn" \/ ConfiguredScope(v, s) # ""
            THEN {<<"scope", ConfiguredScope(v, s)>>} ELSE {})

(***************************************************************************)
(* getOIDCToken ("cw")                                                     *)
(***************************************************************************)
\* LoopBreaks without the break: the loop always runs on.
LoopBreaks_missing(lastErr, r) == FALSE

\* LoopBreaks without the status check: any response ends the loop.
LoopBreaks_noStatusCheck(lastErr, r) == lastErr = Nil

\* LoopBreaks asking for a usable token: a 200 without one is tried again.
LoopBreaks_onlyWithToken(lastErr, r) ==
    lastErr = Nil /\ r.status = StatusOK /\ JsonDecode(r.body).AccessToken # ""

\* Line 126: the request loop ends on a response without error and of status 200.
LoopBreaks(lastErr, r) == lastErr = Nil /\ r.status = StatusOK

\* RetryDelay with the same delay before every retry.
RetryDelay_constant(n) == baseRetryDelay

\* Lines 142 and 283: delay := time.Duration(i+1) * baseRetryDelay (seconds).
RetryDelay(n) == (n + 1) * baseRetryDelay

\* getOIDCTokenResult without the check for an empty access token.
getOIDCTokenResult_noEmptyCheck(lastErr, r) ==
    IF lastErr # Nil
    THEN Result("", Err("request_failed", maxRetries, ""))
    ELSE IF r.status # StatusOK
    THEN Result("", Err("status", r.status, readResponseBody(r).data))
    ELSE LET d == JsonDecode(StreamContent(r))
         IN  IF d.err THEN Result("", Err("decode", 0, ""))
             ELSE Result(d.AccessToken, Nil)

\* Lines 148-167: what getOIDCToken returns after the loop.
getOIDCTokenResult(lastErr, r) ==
    IF lastErr # Nil
    THEN Result("", Err("request_failed", maxRetries, ""))
    ELSE IF r.status # StatusOK
    THEN Result("", Err("status", r.status, readResponseBody(r).data))
    ELSE LET d == JsonDecode(StreamContent(r))
         IN  IF d.err THEN Result("", Err("decode", 0, ""))
             ELSE IF d.AccessToken = "" THEN Result("", Err("empty_token", 0, ""))
             ELSE Result(d.AccessToken, Nil)

\* Lines 100-103: readFile(CLIENT_SECRET_FILE); an error returns at once.
getOIDCToken_readFile ==
    /\ variant = "cw" /\ pc = "readFile"
    /\ IF env.secret = "ok"
       THEN /\ pc' = "postForm"
            /\ ret' = ret
       ELSE /\ pc' = "tokenReturned"
            /\ ret' = Result("", Err("read_secret", 0, ""))
    /\ i' = 0
    /\ UNCHANGED <<variant, env, scope, form, getErr, initial, resp, lastError, httpLog, sleeps, requests,
                   runVars, cancelled, clusterVars, ghostVars, cronVars>>

\* Lines 119-146: one iteration of the request loop.
getOIDCToken_attempt ==
    /\ variant = "cw" /\ pc = "postForm"
    /\ \E r \in Responses :
         LET lastErr == IF r.err THEN Err("transport", 0, "") ELSE Nil
             got     == IF r.err THEN NoResp ELSE RespOf(r)
             brk     == LoopBreaks(lastErr, got)
         IN  /\ httpLog' = Append(httpLog, r)
             /\ requests' = requests + 1
             /\ lastError' = lastErr
             /\ resp' = IF ~brk /\ lastErr = Nil THEN readResponseBody(got).resp ELSE got
             /\ sleeps' = IF ~brk /\ i < maxRetries - 1
                          THEN Append(sleeps, RetryDelay(i)) ELSE sleeps
             /\ i' = IF brk THEN i ELSE i + 1
             /\ pc' = IF brk \/ i + 1 >= maxRetries THEN "afterLoop" ELSE "postForm"
    /\ form' = requestForm(variant, env, scope)
    /\ UNCHANGED <<variant, env, scope, getErr, initial, ret, runVars, cancelled, clusterVars, ghostVars, cronVars>>

\* Lines 148-167: after the loop.
getOIDCToken_return ==
    /\ variant = "cw" /\ pc = "afterLoop"
    /\ ret' = getOIDCTokenResult(lastError, resp)
    /\ pc' = "tokenReturned"
    /\ UNCHANGED <<variant, env, scope, form, getErr, initial, i, resp, lastError, httpLog, sleeps, requests,
                   runVars, cancelled, clusterVars, ghostVars, cronVars>>

(***************************************************************************)
(* fetchOIDCToken ("tn")                                                   *)
(***************************************************************************)
\* Lines 464-506: one request; the deferred Close may turn a nil error into an
\* error (the named result accessToken keeps the value already assigned).
fetchOIDCTokenResult(r, closeErr) ==
    IF r.err THEN Result("", Err("request_failed", 1, ""))
    ELSE LET d == JsonDecode(r.body)
             res == IF r.status # StatusOK THEN Result("", Err("status", r.status, ""))
                    ELSE IF d.err THEN Result("", Err("decode", 0, ""))
                    ELSE IF d.AccessToken = "" THEN Result("", Err("empty_token", 0, ""))
                    ELSE Result(d.AccessToken, Nil)
         IN  IF closeErr /\ res.err = Nil THEN Result(res.token, Err("close", 0, ""))
             ELSE res

\* fetchOIDCToken sending its request again after a failed attempt, up to
\* maxRetries requests.
fetchOIDCToken_retry ==
    /\ variant = "tn" /\ pc = "fetch"
    /\ \E r \in Responses, closeErr \in BOOLEAN :
         /\ httpLog' = Append(httpLog, r)
         /\ requests' = requests + 1
         /\ IF (r.err \/ r.status # StatusOK) /\ requests + 1 < maxRetries
            THEN pc' = "fetch" /\ ret' = ret
            ELSE pc' = "tokenReturned" /\ ret' = fetchOIDCTokenResult(r, closeErr)
    /\ form' = requestForm(variant, env, scope)
    /\ UNCHANGED <<variant, env, scope, getErr, initial, i, resp, lastError, sleeps,
                   runVars, cancelled, clusterVars, ghostVars, cronVars>>

\* Lines 464-506 and 384: main calls fetchOIDCToken once.
fetchOIDCToken ==
    /\ variant = "tn" /\ pc = "fetch"
    /\ \E r \in Responses, closeErr \in BOOLEAN :
         /\ httpLog' = Append(httpLog, r)
         /\ requests' = requests + 1
         /\ ret' = fetchOIDCTokenResult(r, closeErr)
    /\ pc' = "tokenReturned"
    /\ form' = requestForm(variant, env, scope)
    /\ UNCHANGED <<variant, env, scope, getErr, initial, i, resp, lastError, sleeps,
                   runVars, cancelled, clusterVars, ghostVars, cronVars>>

(***************************************************************************)
(* The token functions alone: from their entry to their return.            *)
(***************************************************************************)
Namespaces == {"a", "b", "c"}
Running == -1
NoSecret == [exists |-> FALSE, token |-> "", extra |-> "", managedBy |-> ""]
NoCalls == [get |-> 0, create |-> 0, update |-> 0, patch |-> 0, failed |-> 0]
NoPrev == [token |-> "", outcome |-> [n \in Namespaces |-> "pending"]]

TokenEntry(v) == IF v = "cw" THEN "readFile" ELSE "fetch"

InitToken ==
    /\ variant \in {"cw", "tn"}
    /\ scope \in ScopeSettings /\ form = {}
    /\ env \in {e \in Envs(variant) : e.url /\ e.clientId /\ e.secret # "unset"
                                       /\ e.secret # "missing" /\ e.kube /\ e.targets = <<>>}
    /\ pc = TokenEntry(variant)
    /\ i = 0 /\ resp = NoResp /\ lastError = Nil /\ ret = NoResult
    /\ httpLog = <<>> /\ sleeps = <<>> /\ requests = 0
    /\ token = "" /\ namespaces = <<>> /\ idx = 1 /\ errorList = <<>>
    /\ successCount = 0 /\ runErr = Nil /\ exitCode = Running
    /\ cancelled = FALSE
    /\ secrets = [n \in Namespaces |-> NoSecret]
    /\ clusterNs = <<>>
    /\ api = [n \in Namespaces |-> NoCalls]
    /\ outcome = [n \in Namespaces |-> "pending"]
    /\ listCalls = 0
    /\ run = 1 /\ prev = NoPrev
    /\ getErr = "" /\ initial = secrets

NextToken ==
    \/ getOIDCToken_readFile
    \/ getOIDCToken_attempt
    \/ getOIDCToken_return
    \/ fetchOIDCToken

SpecToken == InitToken /\ [][NextToken]_vars

(***************************************************************************)
(* The cluster API server                                                  *)
(***************************************************************************)
appName == "oidc-secret-manager"

\* A Secret left by an earlier deployment or another tool: the managed key holds
\* token t1, and it carries a key and a label of its own.
Prior == [exists |-> TRUE, token |-> "t1", extra |-> "x", managedBy |-> "other"]

\* The ways a request to the API server fails without taking effect.
ApiFaults == {"Forbidden", "Timeout"}

\* A Forbidden error of a Get whose message names a missing RBAC role: its
\* text holds the words "not found" although the Secret's existence is unknown.
RoleNotFound == "Forbidden: role not found"

\* The errors a Secret Get can fail with.
GetFaults == ApiFaults \cup {RoleNotFound}

\* What an unfailed Get answers: nil ("") for a Secret that exists, the
\* NotFound status error otherwise.
GetAnswer(secret) == IF secret.exists THEN "" ELSE "NotFound"

\* Line 253 (and src/main.go lines 153 and 352): k8serrors.IsNotFound(err).
IsNotFound(e) == e = "NotFound"

\* Line 540: strings.Contains(err.Error(), "not found").
ContainsNotFound(e) == e \in {"NotFound", RoleNotFound}

\* The namespace listings of a cluster: its namespaces, each once, in some order.
RECURSIVE Listings(_)
Listings(S) ==
    IF S = {} THEN {<<>>}
    ELSE UNION {{<<n>> \o l : l \in Listings(S \ {n})} : n \in S}
ClusterListings == UNION {Listings(S) : S \in SUBSET Namespaces}

\* base64.StdEncoding of the model's tokens, and the server's decoding of a
\* data value of a JSON patch ("" when the value is no base64 text).
B64Encode(t) == CASE t = "t1" -> "dDE=" [] t = "t2" -> "dDI=" [] OTHER -> ""
B64Decode(x) == CASE x = "dDE=" -> "t1" [] x = "dDI=" -> "t2" [] OTHER -> ""
B64Valid(x) == x \in {"dDE=", "dDI="}

\* listNamespaces leaving out the first item of the List's answer.
listNamespaces_skipFirst(items) == [k \in 1..(Len(items) - 1) |-> items[k + 1]]

\* listNamespaces (both programs): the names of the items of the List's
\* answer, appended one by one in the answer's order.
listNamespaces(items) == [k \in 1..Len(items) |-> items[k]]

\* A Secret as a Get returns it: the stored bytes under data; stringData is a
\* write-only field, which the server never returns.
GetView(s) == [Data |-> [token |-> s.token], StringData |-> [token |-> ""]]

(***************************************************************************)
(* "cw": main, run, manageSecretsClusterWide, manageNamespaceSecret         *)
(***************************************************************************)
Exit(code, e) ==
    /\ pc' = "exited"
    /\ exitCode' = code
    /\ runErr' = e

\* Lines 77-97: validateEnv; run returns its error and main exits 1.
validateEnv(e) ==
    IF e.secret = "missing" THEN Err("secret_file_missing", 0, "")
    ELSE IF ~e.url \/ ~e.clientId \/ e.secret = "unset" THEN Err("missing_env", 0, "")
    ELSE Nil

run_validateEnv ==
    /\ variant = "cw" /\ pc = "start"
    /\ IF validateEnv(env) # Nil
       THEN Exit(1, validateEnv(env))
       ELSE /\ pc' = "readFile"
            /\ UNCHANGED <<exitCode, runErr>>
    /\ UNCHANGED <<variant, env, scope, form, getErr, initial, tokenVars, token, namespaces, idx, errorList,
                   successCount, cancelled, clusterVars, ghostVars, cronVars>>

\* Lines 64-68: run receives getOIDCToken's result.
run_gotToken ==
    /\ variant = "cw" /\ pc = "tokenReturned"
    /\ IF ret.err # Nil
       THEN /\ Exit(1, ret.err)
            /\ token' = token
       ELSE /\ pc' = "list"
            /\ token' = ret.token
            /\ UNCHANGED <<exitCode, runErr>>
    /\ i' = 0 /\ resp' = NoResp /\ lastError' = Nil /\ ret' = NoResult
    /\ httpLog' = <<>>
    /\ UNCHANGED <<variant, env, scope, form, getErr, initial, sleeps, requests, namespaces, idx, errorList,
                   successCount, cancelled, clusterVars, ghostVars, cronVars>>

\* Lines 170-184 and 214-231: the Kubernetes client, then listNamespaces.
manageSecretsClusterWide_list ==
    /\ variant = "cw" /\ pc = "list"
    /\ \/ /\ ~env.kube
          /\ Exit(1, Err("kube_config", 0, ""))
          /\ UNCHANGED <<namespaces, listCalls>>
       \/ /\ env.kube
          /\ listCalls' = listCalls + 1
          /\ \E f \in ApiFaults : Exit(1, Err("list_namespaces", 0, f))
          /\ UNCHANGED <<namespaces>>
       \/ /\ env.kube
          /\ listCalls' = listCalls + 1
          /\ namespaces' = listNamespaces(clusterNs)
          /\ pc' = IF listNamespaces(clusterNs) = <<>> THEN "summary" ELSE "get"
          /\ UNCHANGED <<exitCode, runErr>>
    /\ UNCHANGED <<variant, env, scope, form, getErr, initial, tokenVars, token, idx, errorList,
                   successCount, cancelled, clusterVars, api, outcome, cronVars>>

\* secretObject carrying the token of an earlier run instead of its argument.
secretObject_stale(tok) == [exists |-> TRUE, token |-> "t1", extra |-> "", managedBy |-> appName]

\* Lines 234-246: the Secret object manageNamespaceSecret sends; the server
\* stores stringData under data.
secretObject(tok) == [exists |-> TRUE, token |-> tok, extra |-> "", managedBy |-> appName]

\* TokenUnchanged taking every existing Secret for up to date.
TokenUnchanged_always(existing, tok) == TRUE

\* Line 260: existing.StringData["token"] == token.
TokenUnchanged(existing, tok) == existing.StringData.token = tok

\* The record of the requests issued: one more op for ns (that failed).
Count(ns, op) == [api EXCEPT ![ns][op] = @ + 1]
CountFailed(ns, op) == [api EXCEPT ![ns][op] = @ + 1, ![ns].failed = @ + 1]

\* withRetries_result leaving the namespace loop at the first namespace that
\* failed for good.
withRetries_result_failFast(ns, e, oc) ==
    IF e = Nil
    THEN /\ successCount' = successCount + 1
         /\ outcome' = [outcome EXCEPT ![ns] = oc]
         /\ idx' = idx + 1
         /\ i' = 0
         /\ lastError' = Nil
         /\ pc' = IF idx + 1 > Len(namespaces) THEN "summary" ELSE "get"
         /\ UNCHANGED <<errorList, sleeps>>
    ELSE IF i < maxRetries - 1
    THEN /\ sleeps' = Append(sleeps, RetryDelay(i))
         /\ i' = i + 1
         /\ lastError' = e
         /\ pc' = "get"
         /\ UNCHANGED <<successCount, outcome, idx, errorList>>
    ELSE /\ errorList' = Append(errorList, ns)
         /\ outcome' = [outcome EXCEPT ![ns] = "failed"]
         /\ idx' = idx + 1
         /\ i' = 0
         /\ lastError' = Nil
         /\ pc' = "summary"
         /\ UNCHANGED <<successCount, sleeps>>

\* withRetries_result giving a namespace up at its first failed attempt.
withRetries_result_noRetry(ns, e, oc) ==
    IF e = Nil
    THEN /\ successCount' = successCount + 1
         /\ outcome' = [outcome EXCEPT ![ns] = oc]
         /\ idx' = idx + 1
         /\ i' = 0
         /\ lastError' = Nil
         /\ pc' = IF idx + 1 > Len(namespaces) THEN "summary" ELSE "get"
         /\ UNCHANGED <<errorList, sleeps>>
    ELSE /\ errorList' = Append(errorList, ns)
         /\ outcome' = [outcome EXCEPT ![ns] = "failed"]
         /\ idx' = idx + 1
         /\ i' = 0
         /\ lastError' = Nil
         /\ pc' = IF idx + 1 > Len(namespaces) THEN "summary" ELSE "get"
         /\ UNCHANGED <<successCount, sleeps>>

\* withRetries recording the namespace as failed at every failed attempt, before
\* it retries.
withRetries_result_markEarly(ns, e, oc) ==
    IF e = Nil
    THEN /\ successCount' = successCount + 1
         /\ outcome' = [outcome EXCEPT ![ns] = oc]
         /\ idx' = idx + 1
         /\ i' = 0
         /\ lastError' = Nil
         /\ pc' = IF idx + 1 > Len(namespaces) THEN "summary" ELSE "get"
         /\ UNCHANGED <<errorList, sleeps>>
    ELSE IF i < maxRetries - 1
    THEN /\ sleeps' = Append(sleeps, RetryDelay(i))
         /\ i' = i + 1
         /\ lastError' = e
         /\ pc' = "get"
         /\ outcome' = [outcome EXCEPT ![ns] = "failed"]
         /\ UNCHANGED <<successCount, idx, errorList>>
    ELSE /\ errorList' = Append(errorList, ns)
         /\ outcome' = [outcome EXCEPT ![ns] = "failed"]
         /\ idx' = idx + 1
         /\ i' = 0
         /\ lastError' = Nil
         /\ pc' = IF idx + 1 > Len(namespaces) THEN "summary" ELSE "get"
         /\ UNCHANGED <<successCount, sleeps>>

\* withRetries counting its attempts in a counter the namespaces share: a
\* namespace that fails leaves the counter where it is.
withRetries_result_sharedCounter(ns, e, oc) ==
    IF e = Nil
    THEN /\ successCount' = successCount + 1
         /\ outcome' = [outcome EXCEPT ![ns] = oc]
         /\ idx' = idx + 1
         /\ i' = 0
         /\ lastError' = Nil
         /\ pc' = IF idx + 1 > Len(namespaces) THEN "summary" ELSE "get"
         /\ UNCHANGED <<errorList, sleeps>>
    ELSE IF i < maxRetries - 1
    THEN /\ sleeps' = Append(sleeps, RetryDelay(i))
         /\ i' = i + 1
         /\ lastError' = e
         /\ pc' = "get"
         /\ UNCHANGED <<successCount, outcome, idx, errorList>>
    ELSE /\ errorList' = Append(errorList, ns)
         /\ outcome' = [outcome EXCEPT ![ns] = "failed"]
         /\ idx' = idx + 1
         /\ i' = i
         /\ lastError' = Nil
         /\ pc' = IF idx + 1 > Len(namespaces) THEN "summary" ELSE "get"
         /\ UNCHANGED <<successCount, sleeps>>

\* withRetries allowing one attempt more: its loop bound off by one.
withRetries_result_extraAttempt(ns, e, oc) ==
    IF e = Nil
    THEN /\ successCount' = successCount + 1
         /\ outcome' = [outcome EXCEPT ![ns] = oc]
         /\ idx' = idx + 1
         /\ i' = 0
         /\ lastError' = Nil
         /\ pc' = IF idx + 1 > Len(namespaces) THEN "summary" ELSE "get"
         /\ UNCHANGED <<errorList, sleeps>>
    ELSE IF i < maxRetries
    THEN /\ sleeps' = Append(sleeps, RetryDelay(i))
         /\ i' = i + 1
         /\ lastError' = e
         /\ pc' = "get"
         /\ UNCHANGED <<successCount, outcome, idx, errorList>>
    ELSE /\ errorList' = Append(errorList, ns)
         /\ outcome' = [outcome EXCEPT ![ns] = "failed"]
         /\ idx' = idx + 1
         /\ i' = 0
         /\ lastError' = Nil
         /\ pc' = IF idx + 1 > Len(namespaces) THEN "summary" ELSE "get"
         /\ UNCHANGED <<successCount, sleeps>>

\* Lines 189-200 and 273-294: withRetries receives the result e of one call of
\* manageNamespaceSecret for ns (oc: the outcome when e is nil).
withRetries_result(ns, e, oc) ==
    IF e = Nil
    THEN /\ successCount' = successCount + 1
         /\ outcome' = [outcome EXCEPT ![ns] = oc]
         /\ idx' = idx + 1
         /\ i' = 0
         /\ lastError' = Nil
         /\ pc' = IF idx + 1 > Len(namespaces) THEN "summary" ELSE "get"
         /\ UNCHANGED <<errorList, sleeps>>
    ELSE IF i < maxRetries - 1
    THEN /\ sleeps' = Append(sleeps, RetryDelay(i))
         /\ i' = i + 1
         /\ lastError' = e
         /\ pc' = "get"
         /\ UNCHANGED <<successCount, outcome, idx, errorList>>
    ELSE /\ errorList' = Append(errorList, ns)
         /\ outcome' = [outcome EXCEPT ![ns] = "failed"]
         /\ idx' = idx + 1
         /\ i' = 0
         /\ lastError' = Nil
         /\ pc' = IF idx + 1 > Len(namespaces) THEN "summary" ELSE "get"
         /\ UNCHANGED <<successCount, sleeps>>

\* Lines 248-263: manageNamespaceSecret's Get and what follows it without a
\* further request.
manageNamespaceSecret_Get ==
    /\ variant = "cw" /\ pc = "get"
    /\ LET ns == namespaces[idx] IN
       \/ \E f \in GetFaults :
            /\ getErr' = f
            /\ api' = CountFailed(ns, "get")
            /\ withRetries_result(ns, Err("get", 0, f), "")
            /\ UNCHANGED <<secrets>>
       \/ /\ IsNotFound(GetAnswer(secrets[ns]))
          /\ getErr' = GetAnswer(secrets[ns])
          /\ api' = Count(ns, "get")
          /\ pc' = "create"
          /\ UNCHANGED <<i, lastError, sleeps, successCount, outcome, idx, errorList, secrets>>
       \/ /\ GetAnswer(secrets[ns]) = ""
          /\ getErr' = ""
          /\ api' = Count(ns, "get")
          /\ IF TokenUnchanged(GetView(secrets[ns]), token)
             THEN withRetries_result(ns, Nil, "unchanged")
             ELSE /\ pc' = "update"
                  /\ UNCHANGED <<i, lastError, sleeps, successCount, outcome, idx, errorList>>
          /\ UNCHANGED <<secrets>>
    /\ UNCHANGED <<variant, env, scope, form, initial, resp, ret, httpLog, requests, token, namespaces,
                   runErr, exitCode, cancelled, clusterNs, listCalls, cronVars>>

\* Lines 254-258: Create.
manageNamespaceSecret_Create ==
    /\ variant = "cw" /\ pc = "create"
    /\ LET ns == namespaces[idx] IN
       \/ \E f \in ApiFaults :
            /\ api' = CountFailed(ns, "create")
            /\ withRetries_result(ns, Err("create", 0, f), "")
            /\ UNCHANGED <<secrets>>
       \/ /\ api' = Count(ns, "create")
          /\ secrets' = [secrets EXCEPT ![ns] = secretObject(token)]
          /\ withRetries_result(ns, Nil, "created")
    /\ UNCHANGED <<variant, env, scope, form, getErr, initial, resp, ret, httpLog, requests, token, namespaces,
                   runErr, exitCode, cancelled, clusterNs, listCalls, cronVars>>

\* Lines 264-268: Update (a full replacement of the stored object).
manageNamespaceSecret_Update ==
    /\ variant = "cw" /\ pc = "update"
    /\ LET ns == namespaces[idx] IN
       \/ \E f \in ApiFaults :
            /\ api' = CountFailed(ns, "update")
            /\ withRetries_result(ns, Err("update", 0, f), "")
            /\ UNCHANGED <<secrets>>
       \/ /\ api' = Count(ns, "update")
          /\ secrets' = [secrets EXCEPT ![ns] = secretObject(token)]
          /\ withRetries_result(ns, Nil, "updated")
    /\ UNCHANGED <<variant, env, scope, form, getErr, initial, resp, ret, httpLog, requests, token, namespaces,
                   runErr, exitCode, cancelled, clusterNs, listCalls, cronVars>>

\* Lines 202-211, 70-74 and 50-54: the summary, the returned error, the exit.
\* The error carries errorList.
manageSecretsClusterWide_return ==
    /\ variant = "cw" /\ pc = "summary"
    /\ IF Len(errorList) > 0
       THEN Exit(1, ErrList("completed_with_errors", errorList))
       ELSE Exit(0, Nil)
    /\ UNCHANGED <<variant, env, scope, form, getErr, initial, tokenVars, token, namespaces, idx, errorList,
                   successCount, cancelled, clusterVars, ghostVars, cronVars>>

(***************************************************************************)
(* "tn": main, createOrUpdateSecret, processSecretsInNamespaces             *)
(***************************************************************************)
\* strings.Split(s, ","): the fields between the separators.
RECURSIVE Split(_)
Split(s) ==
    IF \A k \in 1..Len(s) : s[k] # ","
    THEN <<s>>
    ELSE LET k == CHOOSE j \in 1..Len(s) : s[j] = "," /\ \A m \in 1..(j - 1) : s[m] # ","
         IN  <<SubSeq(s, 1, k - 1)>> \o Split(SubSeq(s, k + 1, Len(s)))

\* TrimSpace removing the leading blanks only.
RECURSIVE TrimSpace_leading(_)
TrimSpace_leading(f) ==
    IF f = <<>> THEN f
    ELSE IF f[1] = " " THEN TrimSpace_leading(Tail(f))
    ELSE f

\* strings.TrimSpace: the leading and the trailing blanks removed.
RECURSIVE TrimSpace(_)
TrimSpace(f) ==
    IF f = <<>> THEN f
    ELSE IF f[1] = " " THEN TrimSpace(Tail(f))
    ELSE IF f[Len(f)] = " " THEN TrimSpace(SubSeq(f, 1, Len(f) - 1))
    ELSE f

\* A namespace name of the model is one character: the field read as a name.
NameOf(f) == f[1]

\* Lines 402-412: split, trim each entry, keep the non-empty ones.
ParseFields(str) ==
    LET fields  == Split(str)
        trimmed == [k \in 1..Len(fields) |-> TrimSpace(fields[k])]
    IN  SelectSeq(trimmed, LAMBDA f : f # <<>>)

\* The parsed entries as the namespace names of a run.
ParseTargets(str) ==
    LET kept == ParseFields(str)
    IN  [k \in 1..Len(kept) |-> NameOf(kept[k])]

\* ExplicitTargets never taking TARGET_NAMESPACES for set.
ExplicitTargets_never(e) == FALSE

\* ExplicitTargets asking whether the parsed list has an entry.
ExplicitTargets_afterParsing(e) == ParseTargets(e.targets) # <<>>

\* Line 400: targetNamespacesStr != "".
ExplicitTargets(e) == e.targets # <<>>

\* Lines 398-412 on their own: main parses TARGET_NAMESPACES; the entries are
\* kept as the strings they are.
main_parseTargets ==
    /\ variant = "tn" /\ pc = "parse"
    /\ namespaces' = ParseFields(env.targets)
    /\ pc' = "parsed"
    /\ UNCHANGED <<variant, env, scope, form, getErr, initial, tokenVars, token, idx, errorList, successCount,
                   runErr, exitCode, cancelled, clusterVars, ghostVars, cronVars>>

\* Lines 376-381: getEnvOrDie (log.Fatalf exits 1).
main_getEnv ==
    /\ variant = "tn" /\ pc = "start"
    /\ IF ~env.url \/ ~env.clientId \/ env.secret = "unset"
       THEN Exit(1, Err("missing_env", 0, ""))
       ELSE /\ pc' = "fetch"
            /\ UNCHANGED <<exitCode, runErr>>
    /\ UNCHANGED <<variant, env, scope, form, getErr, initial, tokenVars, token, namespaces, idx, errorList,
                   successCount, cancelled, clusterVars, ghostVars, cronVars>>

\* Lines 384-417 and 434-438: the token result, the Kubernetes client, the
\* explicit target list.
main_gotToken ==
    /\ variant = "tn" /\ pc = "tokenReturned"
    /\ IF ret.err # Nil
       THEN /\ Exit(1, ret.err)
            /\ UNCHANGED <<token, namespaces>>
       ELSE IF ~env.kube
       THEN /\ Exit(1, Err("kube_config", 0, ""))
            /\ token' = ret.token
            /\ UNCHANGED <<namespaces>>
       ELSE IF ExplicitTargets(env)
       THEN /\ token' = ret.token
            /\ namespaces' = ParseTargets(env.targets)
            /\ IF ParseTargets(env.targets) = <<>>
               THEN Exit(0, Nil)
               ELSE /\ pc' = "nsLoop"
                    /\ UNCHANGED <<exitCode, runErr>>
       ELSE /\ token' = ret.token
            /\ pc' = "list"
            /\ UNCHANGED <<namespaces, exitCode, runErr>>
    /\ i' = 0 /\ resp' = NoResp /\ lastError' = Nil /\ ret' = NoResult
    /\ httpLog' = <<>>
    /\ UNCHANGED <<variant, env, scope, form, getErr, initial, sleeps, requests, idx, errorList,
                   successCount, cancelled, clusterVars, ghostVars, cronVars>>

\* Lines 417-438 and 522-533: listNamespaces under the signal context.
main_listNamespaces ==
    /\ variant = "tn" /\ pc = "list"
    /\ listCalls' = listCalls + 1
    /\ \/ /\ cancelled
          /\ Exit(0, Err("interrupted", 0, ""))
          /\ UNCHANGED <<namespaces>>
       \/ /\ ~cancelled
          /\ \E f \in ApiFaults : Exit(1, Err("list_namespaces", 0, f))
          /\ UNCHANGED <<namespaces>>
       \/ /\ ~cancelled
          /\ namespaces' = listNamespaces(clusterNs)
          /\ IF listNamespaces(clusterNs) = <<>>
             THEN Exit(0, Nil)
             ELSE /\ pc' = "nsLoop"
                  /\ UNCHANGED <<exitCode, runErr>>
    /\ UNCHANGED <<variant, env, scope, form, getErr, initial, tokenVars, token, idx, errorList,
                   successCount, cancelled, clusterVars, api, outcome, cronVars>>

\* processSecretsInNamespaces' loop without the ctx.Done() check at its top.
processSecretsInNamespaces_next_noCancelCheck ==
    /\ variant = "tn" /\ pc = "nsLoop"
    /\ IF idx > Len(namespaces)
       THEN Exit(0, Nil)
       ELSE /\ pc' = "get"
            /\ UNCHANGED <<exitCode, runErr>>
    /\ UNCHANGED <<variant, env, scope, form, getErr, initial, tokenVars, token, namespaces, idx, errorList,
                   successCount, cancelled, clusterVars, ghostVars, cronVars>>

\* Lines 584-593, 610 and 440-445: the head of the namespace loop, and main
\* after processSecretsInNamespaces returned (main returns in both cases).
processSecretsInNamespaces_next ==
    /\ variant = "tn" /\ pc = "nsLoop"
    /\ IF idx > Len(namespaces)
       THEN Exit(0, Nil)
       ELSE IF cancelled
       THEN Exit(0, Err("interrupted", 0, ""))
       ELSE /\ pc' = "get"
            /\ UNCHANGED <<exitCode, runErr>>
    /\ UNCHANGED <<variant, env, scope, form, getErr, initial, tokenVars, token, namespaces, idx, errorList,
                   successCount, cancelled, clusterVars, ghostVars, cronVars>>

\* secretOpFailed skipping the namespace and going on with the next one.
secretOpFailed_skip(ns, op, f) ==
    /\ api' = CountFailed(ns, op)
    /\ outcome' = [outcome EXCEPT ![ns] = "failed"]
    /\ idx' = idx + 1
    /\ pc' = "nsLoop"
    /\ UNCHANGED <<exitCode, runErr>>

\* secretOpFailed calling createOrUpdateSecret again, up to maxRetries times.
secretOpFailed_retry(ns, op, f) ==
    /\ api' = CountFailed(ns, op)
    /\ idx' = idx
    /\ IF api[ns].failed + 1 < maxRetries
       THEN /\ outcome' = outcome
            /\ pc' = "get"
            /\ UNCHANGED <<exitCode, runErr>>
       ELSE /\ outcome' = [outcome EXCEPT ![ns] = "failed"]
            /\ Exit(1, Err(op, 0, f))

\* Lines 597-606: processSecretsInNamespaces after request op of
\* createOrUpdateSecret failed for ns with fault f ("Canceled": the request
\* ended on the cancelled context): log.Fatalf exits 1, unless the context was
\* cancelled and the operation's deadline has not passed; then the function
\* returns ctx.Err() and main returns.
secretOpFailed(ns, op, f) ==
    /\ api' = CountFailed(ns, op)
    /\ outcome' = [outcome EXCEPT ![ns] = "failed"]
    /\ idx' = idx
    /\ IF f = "Timeout" THEN Exit(1, Err(op, 0, f))
       ELSE IF cancelled THEN Exit(0, Err("interrupted", 0, ""))
       ELSE Exit(1, Err(op, 0, f))

\* newSecret without its Data.
newSecret_noData(tok) == [exists |-> TRUE, token |-> "", extra |-> "", managedBy |-> ""]

\* Lines 545-552: the Secret createOrUpdateSecret creates.
newSecret(tok) == [exists |-> TRUE, token |-> tok, extra |-> "", managedBy |-> ""]

\* Lines 565-569: the merge patch's value for the secret key.
patchPayload_withLabels(tok) ==
    [data |-> {<<"token", B64Encode(tok)>>}, labels |-> {<<"managed-by", appName>>}]

patchPayload(tok) == [data |-> {<<"token", B64Encode(tok)>>}]

\* Line 575: what the server makes of a merge patch (types.MergePatchType). A
\* member the patch names replaces the Secret's member of that name; every
\* member it does not name is kept. Data values are base64 text.
PatchValid(p) == \A kv \in p.data : B64Valid(kv[2])

PatchedData(p, key, old) ==
    IF \E kv \in p.data : kv[1] = key
    THEN B64Decode((CHOOSE kv \in p.data : kv[1] = key)[2])
    ELSE old

PatchedLabel(p, key, old) ==
    IF "labels" \in DOMAIN p /\ \E kv \in p.labels : kv[1] = key
    THEN (CHOOSE kv \in p.labels : kv[1] = key)[2]
    ELSE old

MergePatch(secret, p) ==
    [exists |-> TRUE,
     token |-> PatchedData(p, "token", secret.token),
     extra |-> PatchedData(p, "extra", secret.extra),
     managedBy |-> PatchedLabel(p, "managed-by", secret.managedBy)]

\* Line 538 and 539-561: Get, and the choice between Create and Patch.
createOrUpdateSecret_Get ==
    /\ variant = "tn" /\ pc = "get"
    /\ LET ns == namespaces[idx] IN
       \/ /\ cancelled
          /\ getErr' = "Canceled"
          /\ secretOpFailed(ns, "get", "Canceled")
       \/ /\ ~cancelled
          /\ \E e \in GetFaults \cup {GetAnswer(secrets[ns])} :
               /\ getErr' = e
               /\ IF e # "" /\ ~ContainsNotFound(e)
                  THEN secretOpFailed(ns, "get", e)
                  ELSE /\ api' = Count(ns, "get")
                       /\ pc' = IF e = "" THEN "patch" ELSE "create"
                       /\ UNCHANGED <<outcome, idx, exitCode, runErr>>
    /\ UNCHANGED <<variant, env, scope, form, initial, tokenVars, token, namespaces, errorList,
                   successCount, cancelled, clusterVars, listCalls, cronVars>>

\* Lines 541-557: Create.
createOrUpdateSecret_Create ==
    /\ variant = "tn" /\ pc = "create"
    /\ LET ns == namespaces[idx] IN
       \/ /\ cancelled
          /\ secretOpFailed(ns, "create", "Canceled")
          /\ UNCHANGED <<secrets>>
       \/ /\ ~cancelled
          /\ \E f \in ApiFaults : secretOpFailed(ns, "create", f)
          /\ UNCHANGED <<secrets>>
       \/ /\ ~cancelled /\ secrets[ns].exists
          /\ secretOpFailed(ns, "create", "AlreadyExists")
          /\ UNCHANGED <<secrets>>
       \/ /\ ~cancelled /\ ~secrets[ns].exists
          /\ api' = Count(ns, "create")
          /\ secrets' = [secrets EXCEPT ![ns] = newSecret(token)]
          /\ outcome' = [outcome EXCEPT ![ns] = "created"]
          /\ idx' = idx + 1
          /\ pc' = "nsLoop"
          /\ UNCHANGED <<exitCode, runErr>>
    /\ UNCHANGED <<variant, env, scope, form, getErr, initial, tokenVars, token, namespaces, errorList,
                   successCount, cancelled, clusterNs, listCalls, cronVars>>

\* Lines 563-580: the merge patch {"data": {secretKey: base64(token)}}; the
\* server rejects a data value that is no base64 text.
createOrUpdateSecret_Patch ==
    /\ variant = "tn" /\ pc = "patch"
    /\ LET ns == namespaces[idx] IN
       \/ /\ cancelled
          /\ secretOpFailed(ns, "patch", "Canceled")
          /\ UNCHANGED <<secrets>>
       \/ /\ ~cancelled
          /\ \E f \in ApiFaults : secretOpFailed(ns, "patch", f)
          /\ UNCHANGED <<secrets>>
       \/ /\ ~cancelled
          /\ IF PatchValid(patchPayload(token))
             THEN /\ api' = Count(ns, "patch")
                  /\ secrets' = [secrets EXCEPT ![ns] = MergePatch(secrets[ns], patchPayload(token))]
                  /\ outcome' = [outcome EXCEPT ![ns] = "updated"]
                  /\ idx' = idx + 1
                  /\ pc' = "nsLoop"
                  /\ UNCHANGED <<exitCode, runErr>>
             ELSE /\ secretOpFailed(ns, "patch", "Invalid")
                  /\ UNCHANGED <<secrets>>
    /\ UNCHANGED <<variant, env, scope, form, getErr, initial, tokenVars, token, namespaces, errorList,
                   successCount, cancelled, clusterNs, listCalls, cronVars>>

\* Lines 368-374: SIGINT or SIGTERM cancels the context.
Signal ==
    /\ variant = "tn" /\ pc # "exited" /\ ~cancelled
    /\ cancelled' = TRUE
    /\ UNCHANGED <<variant, env, scope, form, getErr, initial, pc, tokenVars, runVars, clusterVars, ghostVars, cronVars>>

(***************************************************************************)
(* One run of either program                                               *)
(***************************************************************************)
\* The cluster's listing matters to a run that lists the namespaces.
ListsCluster(v, e) == EnvValid(e) /\ e.kube /\ e.targets = <<>>

Init ==
    /\ variant \in {"cw", "tn"}
    /\ scope = "unset" /\ form = {}
    /\ env \in Envs(variant)
    /\ pc = "start"
    /\ i = 0 /\ resp = NoResp /\ lastError = Nil /\ ret = NoResult
    /\ httpLog = <<>> /\ sleeps = <<>> /\ requests = 0
    /\ token = "" /\ namespaces = <<>> /\ idx = 1 /\ errorList = <<>>
    /\ successCount = 0 /\ runErr = Nil /\ exitCode = Running
    /\ cancelled = FALSE
    /\ secrets \in [Namespaces -> {NoSecret, Prior}]
    /\ clusterNs \in IF ListsCluster(variant, env) THEN ClusterListings
                     ELSE {<<"a", "b", "c">>}
    /\ api = [n \in Namespaces |-> NoCalls]
    /\ outcome = [n \in Namespaces |-> "pending"]
    /\ listCalls = 0
    /\ run = 1 /\ prev = NoPrev
    /\ getErr = "" /\ initial = secrets

Next ==
    \/ run_validateEnv
    \/ getOIDCToken_readFile
    \/ getOIDCToken_attempt
    \/ getOIDCToken_return
    \/ run_gotToken
    \/ manageSecretsClusterWide_list
    \/ manageNamespaceSecret_Get
    \/ manageNamespaceSecret_Create
    \/ manageNamespaceSecret_Update
    \/ manageSecretsClusterWide_return
    \/ main_getEnv
    \/ fetchOIDCToken
    \/ main_gotToken
    \/ main_listNamespaces
    \/ processSecretsInNamespaces_next
    \/ createOrUpdateSecret_Get
    \/ createOrUpdateSecret_Create
    \/ createOrUpdateSecret_Patch
    \/ Signal

Spec == Init /\ [][Next]_vars

(***************************************************************************)
(* The single-namespace programs (src/main.go): "sn1" (lines 1-185) and    *)
(* "sn2" (lines 187-394)                                                   *)
(***************************************************************************)
\* Lines 29, 35, 41, 46 (os.Exit(1)) and line 215 (os.Exit(2)).
sn_ExitCode(v) == IF v = "sn1" THEN 1 ELSE 2

\* Lines 175-181 and 374-380: readFile. The first program's readFile returns
\* the empty string for a file it cannot read, the second one an error.
sn_readFile(v, e) ==
    IF e.secret = "ok" THEN [err |-> FALSE, secret |-> "s"]
    ELSE IF v = "sn1" THEN [err |-> FALSE, secret |-> ""]
    ELSE [err |-> TRUE, secret |-> ""]

\* Lines 99-119 and 295-318: the result of the one request.
sn_getOIDCTokenResult(r) ==
    IF r.err THEN Result("", Err("request_failed", 1, ""))
    ELSE IF r.status # StatusOK THEN Result("", Err("status", r.status, r.body))
    ELSE LET d == JsonDecode(r.body)
         IN  IF d.err THEN Result("", Err("decode", 0, ""))
             ELSE IF d.AccessToken = "" THEN Result("", Err("empty_token", 0, ""))
             ELSE Result(d.AccessToken, Nil)

\* Lines 133-141 and 332-340: the Secret both programs send (stringData, no
\* labels); the server stores stringData under data.
sn_secret(tok) == [exists |-> TRUE, token |-> tok, extra |-> "", managedBy |-> ""]

\* Lines 27-30 and 222-224 with 64-86 and 255-277: validateEnv.
sn_validateEnv ==
    /\ variant \in {"sn1", "sn2"} /\ pc = "start"
    /\ IF validateEnv(env) # Nil
       THEN Exit(sn_ExitCode(variant), validateEnv(env))
       ELSE /\ pc' = "getToken"
            /\ UNCHANGED <<exitCode, runErr>>
    /\ UNCHANGED <<variant, env, scope, form, getErr, initial, tokenVars, token, namespaces, idx, errorList,
                   successCount, cancelled, clusterVars, ghostVars, cronVars>>

\* Lines 88-120 and 279-319: getOIDCToken: readFile, then one request.
sn_getOIDCToken ==
    /\ variant \in {"sn1", "sn2"} /\ pc = "getToken"
    /\ IF sn_readFile(variant, env).err
       THEN /\ ret' = Result("", Err("read_secret", 0, ""))
            /\ UNCHANGED <<httpLog, requests, form>>
       ELSE \E r \in Responses :
                /\ form' = requestForm(variant, env, scope)
                /\ httpLog' = Append(httpLog, r)
                /\ requests' = requests + 1
                /\ ret' = sn_getOIDCTokenResult(r)
    /\ pc' = "tokenReturned"
    /\ UNCHANGED <<variant, env, scope, getErr, initial, i, resp, lastError, sleeps,
                   runVars, cancelled, clusterVars, ghostVars, cronVars>>

\* Lines 32-42 and 226-234 with 52-62 and 243-253: main receives the token
\* and getCurrentNamespace names the namespace (the service-account file,
\* POD_NAMESPACE or "default").
sn_getCurrentNamespace ==
    /\ variant \in {"sn1", "sn2"} /\ pc = "tokenReturned"
    /\ IF ret.err # Nil
       THEN /\ Exit(sn_ExitCode(variant), ret.err)
            /\ UNCHANGED <<token, namespaces>>
       ELSE /\ token' = ret.token
            /\ \E n \in Namespaces : namespaces' = <<n>>
            /\ pc' = "get"
            /\ UNCHANGED <<exitCode, runErr>>
    /\ ret' = NoResult /\ httpLog' = <<>>
    /\ UNCHANGED <<variant, env, scope, form, getErr, initial, i, resp, lastError, sleeps, requests, idx, errorList,
                   successCount, cancelled, clusterVars, ghostVars, cronVars>>

\* Lines 122-161 and 321-360: the Kubernetes client, then the Get.
sn_createOrUpdateSecret_Get ==
    /\ variant \in {"sn1", "sn2"} /\ pc = "get"
    /\ LET ns == namespaces[idx] IN
       IF ~env.kube
       THEN /\ Exit(sn_ExitCode(variant), Err("kube_config", 0, ""))
            /\ UNCHANGED <<api, outcome, getErr>>
       ELSE \/ \E f \in GetFaults :
                 /\ getErr' = f
                 /\ api' = CountFailed(ns, "get")
                 /\ outcome' = [outcome EXCEPT ![ns] = "failed"]
                 /\ Exit(sn_ExitCode(variant), Err("get", 0, f))
            \/ /\ getErr' = GetAnswer(secrets[ns])
               /\ api' = Count(ns, "get")
               /\ pc' = IF IsNotFound(GetAnswer(secrets[ns])) THEN "create" ELSE "update"
               /\ UNCHANGED <<outcome, exitCode, runErr>>
    /\ UNCHANGED <<variant, env, scope, form, initial, tokenVars, token, namespaces, idx, errorList,
                   successCount, cancelled, clusterVars, listCalls, cronVars>>

\* Lines 147-152 and 346-351: Update with the Secret of lines 133-141.
sn_createOrUpdateSecret_Update ==
    /\ variant \in {"sn1", "sn2"} /\ pc = "update"
    /\ LET ns == namespaces[idx] IN
       \/ \E f \in ApiFaults :
            /\ api' = CountFailed(ns, "update")
            /\ outcome' = [outcome EXCEPT ![ns] = "failed"]
            /\ Exit(sn_ExitCode(variant), Err("update", 0, f))
            /\ UNCHANGED <<secrets>>
       \/ /\ api' = Count(ns, "update")
          /\ secrets' = [secrets EXCEPT ![ns] = sn_secret(token)]
          /\ outcome' = [outcome EXCEPT ![ns] = "updated"]
          /\ Exit(0, Nil)
    /\ UNCHANGED <<variant, env, scope, form, getErr, initial, tokenVars, token, namespaces, idx, errorList,
                   successCount, cancelled, clusterNs, listCalls, cronVars>>

\* Lines 153-158 and 352-357: Create.
sn_createOrUpdateSecret_Create ==
    /\ variant \in {"sn1", "sn2"} /\ pc = "create"
    /\ LET ns == namespaces[idx] IN
       \/ \E f \in ApiFaults :
            /\ api' = CountFailed(ns, "create")
            /\ outcome' = [outcome EXCEPT ![ns] = "failed"]
            /\ Exit(sn_ExitCode(variant), Err("create", 0, f))
            /\ UNCHANGED <<secrets>>
       \/ /\ api' = Count(ns, "create")
          /\ secrets' = [secrets EXCEPT ![ns] = sn_secret(token)]
          /\ outcome' = [outcome EXCEPT ![ns] = "created"]
          /\ Exit(0, Nil)
    /\ UNCHANGED <<variant, env, scope, form, getErr, initial, tokenVars, token, namespaces, idx, errorList,
                   successCount, cancelled, clusterNs, listCalls, cronVars>>

InitSingle ==
    /\ variant \in {"sn1", "sn2"}
    /\ scope \in ScopeSettings /\ form = {}
    /\ env \in Envs("cw")
    /\ pc = "start"
    /\ i = 0 /\ resp = NoResp /\ lastError = Nil /\ ret = NoResult
    /\ httpLog = <<>> /\ sleeps = <<>> /\ requests = 0
    /\ token = "" /\ namespaces = <<>> /\ idx = 1 /\ errorList = <<>>
    /\ successCount = 0 /\ runErr = Nil /\ exitCode = Running
    /\ cancelled = FALSE
    /\ secrets \in [Namespaces -> {NoSecret, Prior}]
    /\ clusterNs = <<"a", "b", "c">>
    /\ api = [n \in Namespaces |-> NoCalls]
    /\ outcome = [n \in Namespaces |-> "pending"]
    /\ listCalls = 0
    /\ run = 1 /\ prev = NoPrev
    /\ getErr = "" /\ initial = secrets

NextSingle ==
    \/ sn_validateEnv
    \/ sn_getOIDCToken
    \/ sn_getCurrentNamespace
    \/ sn_createOrUpdateSecret_Get
    \/ sn_createOrUpdateSecret_Update
    \/ sn_createOrUpdateSecret_Create

SpecSingle == InitSingle /\ [][NextSingle]_vars

(***************************************************************************)
(* The get-token script with the client secret in a file: "sh"            *)
(* (src/main.go lines 396-443)                                             *)
(***************************************************************************)
\* Lines 414-418 and 420-425: what curl -sS writes to the pipe. Without
\* --fail it writes the body of a response of any status; a transfer that
\* fails writes nothing.
sh_curl(r) == IF r.err THEN "" ELSE r.body

\* Lines 418 and 425: jq -r .access_token. No input gives no output, a text
\* that is no JSON gives an error and no output, an object without the field
\* gives the text null (the raw form of the JSON value null), a string field
\* gives its text.
sh_jq(out) ==
    CASE out = ""     -> ""
      [] out = "oops" -> ""
      [] out = "{\"error\":\"invalid_client\"}" -> "null"
      [] out = "{\"access_token\":\"\"}"        -> ""
      [] out = TokenJSON("t1") -> "t1"
      [] out = TokenJSON("t2") -> "t2"

\* Lines 434-443: the value of stringData.token in the manifest, as the server
\* stores it: the plain scalar null is the YAML null, stored as no text.
sh_manifestToken(tok) == IF tok = "null" THEN "" ELSE tok

\* Lines 398-411: KEYCLOAK_URL, CLIENT_ID, and [[ -f "$CLIENT_SECRET_FILE" ]].
sh_checkEnv ==
    /\ variant = "sh" /\ pc = "start"
    /\ IF ~env.url \/ ~env.clientId
       THEN Exit(1, Err("missing_env", 0, ""))
       ELSE IF env.secret \in {"unset", "missing"}
       THEN Exit(1, Err("secret_file_missing", 0, ""))
       ELSE /\ pc' = "curl"
            /\ UNCHANGED <<exitCode, runErr>>
    /\ UNCHANGED <<variant, env, scope, form, getErr, initial, tokenVars, token, namespaces, idx, errorList,
                   successCount, cancelled, clusterVars, ghostVars, cronVars>>

\* Lines 413-427: TOKEN=$(curl ... | jq -r .access_token), with the scope
\* field when SCOPE is not empty.
sh_fetchToken ==
    /\ variant = "sh" /\ pc = "curl"
    /\ \E r \in Responses :
         /\ httpLog' = Append(httpLog, r)
         /\ requests' = requests + 1
         /\ token' = sh_jq(sh_curl(r))
    /\ form' = requestForm(variant, env, scope)
    /\ pc' = "checkToken"
    /\ UNCHANGED <<variant, env, scope, getErr, initial, i, resp, lastError, ret, sleeps,
                   namespaces, idx, errorList, successCount, runErr, exitCode,
                   cancelled, clusterVars, ghostVars, cronVars>>

\* Lines 429-432: [[ -z "$TOKEN" ]].
sh_checkToken ==
    /\ variant = "sh" /\ pc = "checkToken"
    /\ IF token = ""
       THEN Exit(1, Err("empty_token", 0, ""))
       ELSE /\ pc' = "apply"
            /\ UNCHANGED <<exitCode, runErr>>
    /\ UNCHANGED <<variant, env, scope, form, getErr, initial, tokenVars, token, namespaces, idx, errorList,
                   successCount, cancelled, clusterVars, ghostVars, cronVars>>

\* Lines 434-443: kubectl apply of the oidc-jwt Secret in the namespace of the
\* current context: a Get, then a Create, or a Patch of the manifest's fields.
\* The script ends with kubectl's exit status.
sh_kubectlApply ==
    /\ variant = "sh" /\ pc = "apply"
    /\ \E n \in Namespaces :
         /\ namespaces' = <<n>>
         /\ \/ /\ ~env.kube
               /\ Exit(1, Err("kube_config", 0, ""))
               /\ UNCHANGED <<api, outcome, secrets, getErr>>
            \/ /\ env.kube
               /\ \E f \in ApiFaults :
                    /\ getErr' = f
                    /\ api' = CountFailed(n, "get")
                    /\ outcome' = [outcome EXCEPT ![n] = "failed"]
                    /\ Exit(1, Err("get", 0, f))
               /\ UNCHANGED <<secrets>>
            \/ /\ env.kube
               /\ getErr' = GetAnswer(secrets[n])
               /\ IF secrets[n].exists
                  THEN /\ api' = [api EXCEPT ![n].get = @ + 1, ![n].patch = @ + 1]
                       /\ secrets' = [secrets EXCEPT ![n].token = sh_manifestToken(token)]
                       /\ outcome' = [outcome EXCEPT ![n] = "updated"]
                  ELSE /\ api' = [api EXCEPT ![n].get = @ + 1, ![n].create = @ + 1]
                       /\ secrets' = [secrets EXCEPT ![n] = sn_secret(sh_manifestToken(token))]
                       /\ outcome' = [outcome EXCEPT ![n] = "created"]
               /\ Exit(0, Nil)
    /\ UNCHANGED <<variant, env, scope, form, initial, tokenVars, token, idx, errorList,
                   successCount, cancelled, clusterNs, listCalls, cronVars>>

InitShell ==
    /\ variant = "sh"
    /\ scope \in ScopeSettings /\ form = {}
    /\ env \in Envs("cw")
    /\ pc = "start"
    /\ i = 0 /\ resp = NoResp /\ lastError = Nil /\ ret = NoResult
    /\ httpLog = <<>> /\ sleeps = <<>> /\ requests = 0
    /\ token = "" /\ namespaces = <<>> /\ idx = 1 /\ errorList = <<>>
    /\ successCount = 0 /\ runErr = Nil /\ exitCode = Running
    /\ cancelled = FALSE
    /\ secrets \in [Namespaces -> {NoSecret, Prior}]
    /\ clusterNs = <<"a", "b", "c">>
    /\ api = [n \in Namespaces |-> NoCalls]
    /\ outcome = [n \in Namespaces |-> "pending"]
    /\ listCalls = 0
    /\ run = 1 /\ prev = NoPrev
    /\ getErr = "" /\ initial = secrets

NextShell ==
    \/ sh_checkEnv
    \/ sh_fetchToken
    \/ sh_checkToken
    \/ sh_kubectlApply

SpecShell == InitShell /\ [][NextShell]_vars

(***************************************************************************)
(* The parsing of TARGET_NAMESPACES alone                                  *)
(***************************************************************************)
MaxLen == 6

\* The characters of a TARGET_NAMESPACES value: letters, the blank, the comma.
Chars == {"a", "b", " ", ","}

\* The non-empty values of at most MaxLen characters.
TargetInputs == UNION {[1..n -> Chars] : n \in 1..MaxLen}

InitParse ==
    /\ variant = "tn"
    /\ scope = "unset" /\ form = {}
    /\ env \in {[url |-> TRUE, clientId |-> TRUE, secret |-> "ok", kube |-> TRUE,
                  targets |-> str] : str \in TargetInputs}
    /\ pc = "parse"
    /\ i = 0 /\ resp = NoResp /\ lastError = Nil /\ ret = NoResult
    /\ httpLog = <<>> /\ sleeps = <<>> /\ requests = 0
    /\ token = "" /\ namespaces = <<>> /\ idx = 1 /\ errorList = <<>>
    /\ successCount = 0 /\ runErr = Nil /\ exitCode = Running
    /\ cancelled = FALSE
    /\ secrets = [n \in Namespaces |-> NoSecret]
    /\ clusterNs = <<>>
    /\ api = [n \in Namespaces |-> NoCalls]
    /\ outcome = [n \in Namespaces |-> "pending"]
    /\ listCalls = 0
    /\ run = 1 /\ prev = NoPrev
    /\ getErr = "" /\ initial = secrets

NextParse == main_parseTargets

SpecParse == InitParse /\ [][NextParse]_vars

(***************************************************************************)
(* The CronJob: run after run against the same cluster                     *)
(***************************************************************************)
MaxRuns == 2

\* The CronJob manifest (schedule, concurrencyPolicy: Forbid): once the process
\* has exited, the next run starts a new process; the cluster keeps its Secrets.
CronRun ==
    /\ pc = "exited" /\ run < MaxRuns
    /\ run' = run + 1
    /\ prev' = [token |-> token, outcome |-> outcome]
    /\ pc' = "start"
    /\ i' = 0 /\ resp' = NoResp /\ lastError' = Nil /\ ret' = NoResult
    /\ httpLog' = <<>> /\ sleeps' = <<>> /\ requests' = 0
    /\ token' = "" /\ namespaces' = <<>> /\ idx' = 1 /\ errorList' = <<>>
    /\ successCount' = 0 /\ runErr' = Nil /\ exitCode' = Running
    /\ cancelled' = FALSE
    /\ api' = [n \in Namespaces |-> NoCalls]
    /\ outcome' = [n \in Namespaces |-> "pending"]
    /\ listCalls' = 0
    /\ form' = {}
    /\ getErr' = "" /\ initial' = secrets
    /\ UNCHANGED <<variant, env, scope, clusterVars>>

\* A deployment that is configured correctly, on a cluster of one namespace.
InitCron ==
    /\ Init
    /\ EnvValid(env) /\ env.kube
    /\ env.targets \in {<<>>, <<"a">>}
    /\ ListsCluster(variant, env) => clusterNs = <<"a">>

NextCron == Next \/ CronRun

SpecCron == InitCron /\ [][NextCron]_vars

(***************************************************************************)
(* Properties of the token functions (under SpecToken)                     *)
(***************************************************************************)
\* A response that carries a token: status 200 and a JSON body whose
\* access_token is a non-empty string.
CarriesToken(r) == ~r.err /\ r.status = 200 /\ \E t \in Tokens : r.body = TokenJSON(t)
TokenIn(r) == CHOOSE t \in Tokens : r.body = TokenJSON(t)

\* A failed attempt: a transport error or a status other than 200.
FailedAttempt(r) == r.err \/ r.status # 200

LastSent == httpLog[Len(httpLog)]

\* C2: the token function (getOIDCToken, fetchOIDCToken) returns without error
\* only if some response had status 200 and a JSON body with a non-empty
\* access_token, and then it returns exactly that field; when no response was of
\* that kind it returns an error and the empty string.
C2_TokenOnlyFromValid200 ==
    pc = "tokenReturned" =>
        /\ ret.err = Nil =>
             \E k \in 1..Len(httpLog) :
                 CarriesToken(httpLog[k]) /\ ret.token = TokenIn(httpLog[k])
        /\ (\A k \in 1..Len(httpLog) : ~CarriesToken(httpLog[k])) =>
             ret.err # Nil /\ ret.token = ""

\* C2's case: a token returned after failed attempts.
C2_Witness ==
    /\ pc = "tokenReturned"
    /\ ret = Result("t2", Nil)
    /\ Len(httpLog) = 2
    /\ FailedAttempt(httpLog[1])

\* C8: when the endpoint fails the first k attempts (k in 0..2) and answers the
\* next one with a token, getOIDCToken sends no further request (k+1 requests
\* in all) and returns that token without error.
C8_RetryThenSucceed ==
    variant = "cw" =>
        \A k \in 1..Len(httpLog) :
            (CarriesToken(httpLog[k]) /\ \A m \in 1..(k - 1) : FailedAttempt(httpLog[m])) =>
                /\ k <= 3
                /\ Len(httpLog) = k
                /\ requests = k
                /\ pc \in {"afterLoop", "tokenReturned"}
                /\ pc = "tokenReturned" => ret = Result(TokenIn(httpLog[k]), Nil)

\* C8's case: two 500 responses, then a 200 with a token.
C8_Witness ==
    /\ variant = "cw" /\ pc = "tokenReturned"
    /\ Len(httpLog) = 3 /\ requests = 3
    /\ httpLog[1].status = 500 /\ httpLog[2].status = 500
    /\ httpLog[3] = [err |-> FALSE, status |-> 200, body |-> TokenJSON("t1")]
    /\ ret = Result("t1", Nil)

\* C9: when every attempt fails, getOIDCToken has sent exactly 3 requests when
\* its loop ends, and it returns an error and no token; when the last attempt
\* brought a status other than 200, the error names that status.
C9_Exhaustion ==
    (/\ variant = "cw"
     /\ pc \in {"afterLoop", "tokenReturned"}
     /\ httpLog # <<>>
     /\ \A k \in 1..Len(httpLog) : FailedAttempt(httpLog[k])) =>
        /\ Len(httpLog) = 3
        /\ requests = 3
        /\ pc = "tokenReturned" =>
             /\ ret.err # Nil
             /\ ret.token = ""
             /\ ~LastSent.err => ret.err.kind = "status" /\ ret.err.code = LastSent.status

\* C9's case: a transport error, a 500, then a 401, whose status is reported.
C9_Witness ==
    /\ variant = "cw" /\ pc = "tokenReturned"
    /\ Len(httpLog) = 3
    /\ httpLog[1].err /\ httpLog[2].status = 500 /\ httpLog[3].status = 401
    /\ ret.err.kind = "status" /\ ret.err.code = 401

\* C10: when getOIDCToken exhausts its retries on a status other than 200, the
\* error it returns carries that last status and the body the endpoint sent
\* with that last response.
C10_ErrorCarriesLastBody ==
    (/\ variant = "cw"
     /\ pc = "tokenReturned"
     /\ Len(httpLog) = 3
     /\ \A k \in 1..3 : FailedAttempt(httpLog[k])
     /\ ~LastSent.err) =>
        /\ ret.err.code = LastSent.status
        /\ ret.err.body = LastSent.body

(***************************************************************************)
(* Properties of one run (under Spec)                                      *)
(***************************************************************************)
Reconciled == {"created", "updated", "unchanged"}
Targets == {namespaces[k] : k \in 1..Len(namespaces)}
Writes(n) == api[n].create + api[n].update + api[n].patch

\* The Secret of namespace n holds tok under the managed key, as a Get shows it.
Holds(n, tok) == secrets[n].exists /\ GetView(secrets[n]).Data.token = tok

\* C1: when a run ends in success (manageSecretsClusterWide or
\* processSecretsInNamespaces returned nil and the process exits 0), every
\* namespace of the target list holds the Secret with the token fetched in
\* this run under the managed key.
C1_SuccessMeansPublished ==
    (pc = "exited" /\ exitCode = 0 /\ runErr = Nil) =>
        /\ token \in Tokens
        /\ \A n \in Targets : Holds(n, token)

\* C1's case: a successful cluster-wide run over three namespaces, with a
\* Secret created, a Secret replaced and a retried request.
C1_Witness ==
    /\ variant = "cw" /\ pc = "exited" /\ exitCode = 0 /\ runErr = Nil
    /\ Len(namespaces) = 3 /\ token = "t2"
    /\ \E n \in Targets : outcome[n] = "created"
    /\ \E n \in Targets : outcome[n] = "updated" /\ api[n].failed > 0

\* Every attempt made for n has failed (each attempt starts with a Get and ends
\* at its first failed request).
AlwaysFailed(n) == api[n].get > 0 /\ api[n].failed = api[n].get

\* C5: manageSecretsClusterWide attempts every listed namespace, reconciles the
\* namespaces that do not always fail, returns an error that lists exactly the
\* namespaces that always failed (each once, in the list's order), and fails if
\* and only if some namespace failed.
C5_AggregateAndContinue ==
    (variant = "cw" /\ pc = "exited" /\ runErr.kind \in {"nil", "completed_with_errors"}) =>
        /\ \A n \in Targets : api[n].get >= 1
        /\ runErr.list = SelectSeq(namespaces, AlwaysFailed)
        /\ \A n \in Targets : ~AlwaysFailed(n) => Holds(n, token)
        /\ exitCode # 0 <=> \E n \in Targets : AlwaysFailed(n)

\* C5's case: of a, b, c only b always fails.
C5_Witness ==
    /\ variant = "cw" /\ pc = "exited" /\ exitCode = 1
    /\ namespaces = <<"a", "b", "c">>
    /\ runErr.list = <<"b">>
    /\ AlwaysFailed("b") /\ api["b"].failed = 3
    /\ outcome["a"] \in Reconciled /\ outcome["c"] \in Reconciled

\* C6: in processSecretsInNamespaces the first failed request of a namespace
\* (a timeout included) ends the run at that namespace with a failure: the
\* process has exited, processSecretsInNamespaces has not returned nil (exit 1
\* unless the failure is the run's interruption), and no request was issued for
\* a namespace that only comes later in the list.
C6_FailFast ==
    variant = "tn" =>
        \A n \in Namespaces :
            outcome[n] = "failed" =>
                /\ pc = "exited"
                /\ runErr # Nil
                /\ runErr.kind # "interrupted" => exitCode = 1
                /\ api[n].failed = 1
                /\ idx <= Len(namespaces) /\ namespaces[idx] = n
                /\ \A j \in (idx + 1)..Len(namespaces) :
                       namespaces[j] \notin {namespaces[m] : m \in 1..idx} =>
                           api[namespaces[j]] = NoCalls

\* C6's case: of a, b, c the Secret request of b times out.
C6_Witness ==
    /\ variant = "tn" /\ pc = "exited" /\ exitCode = 1
    /\ namespaces = <<"a", "b", "c">>
    /\ outcome["a"] \in Reconciled
    /\ outcome["b"] = "failed" /\ runErr.body = "Timeout"
    /\ api["c"] = NoCalls

\* C7: the process exits 0 only if every target namespace was reconciled
\* without error; whenever main reports an error (configuration, token fetch,
\* namespace listing, a namespace's failure, an interruption) the exit code is
\* not 0.
C7_ExitContract ==
    pc = "exited" =>
        /\ exitCode = 0 =>
             /\ runErr = Nil
             /\ \A n \in Targets : outcome[n] \in Reconciled
        /\ runErr # Nil => exitCode # 0

\* C11: in the cluster-wide program the wait after the n-th failed attempt of
\* getOIDCToken and of withRetries (n = 1, 2) is n times 2 seconds; no wait
\* follows the third failed attempt, a successful attempt or any other step.
C11_BackoffSchedule ==
    [][variant = "cw" =>
         /\ requests' = requests + 1 =>
              LET n == Len(httpLog')
              IN  sleeps' = IF FailedAttempt(httpLog'[n]) /\ n < 3
                            THEN Append(sleeps, n * 2) ELSE sleeps
         /\ \A ns \in Namespaces :
              api'[ns].failed = api[ns].failed + 1 =>
                  LET n == api'[ns].failed
                  IN  sleeps' = IF n < 3 THEN Append(sleeps, n * 2) ELSE sleeps
         /\ (requests' = requests /\ \A ns \in Namespaces : api'[ns].failed = api[ns].failed) =>
              sleeps' = sleeps]_vars

\* C11's case: the token came with the third request; the first namespace
\* failed three times, the second succeeded at its third attempt.
C11_Witness ==
    /\ variant = "cw" /\ pc = "exited"
    /\ requests = 3 /\ token \in Tokens
    /\ Len(namespaces) = 2
    /\ api[namespaces[1]].failed = 3 /\ outcome[namespaces[1]] = "failed"
    /\ api[namespaces[2]].failed = 2 /\ outcome[namespaces[2]] \in Reconciled
    /\ sleeps = <<2, 4, 2, 4, 2, 4>>

\* C12: in the cluster-wide program manageNamespaceSecret is attempted at most
\* 3 times for a namespace (each attempt starts with a Get), no request
\* follows the namespace's successful attempt, a namespace becomes failed only
\* with its third failed attempt, and a success follows failed attempts only.
C12_BoundedRetry ==
    [][variant = "cw" =>
         \A n \in Namespaces :
             /\ api'[n].get <= 3
             /\ outcome[n] \in Reconciled => api'[n] = api[n] /\ outcome'[n] = outcome[n]
             /\ (outcome[n] = "pending" /\ outcome'[n] = "failed") =>
                    api'[n].failed = 3 /\ api'[n].get = 3
             /\ (outcome[n] = "pending" /\ outcome'[n] \in Reconciled) =>
                    api'[n].get = api'[n].failed + 1]_vars

\* C12's case: one namespace created at its third attempt, after it one that
\* failed three times, after it one reconciled at once.
C12_Witness ==
    /\ variant = "cw" /\ pc = "exited"
    /\ Len(namespaces) = 3
    /\ outcome[namespaces[1]] = "created" /\ api[namespaces[1]].get = 3
    /\ outcome[namespaces[2]] = "failed" /\ api[namespaces[2]].failed = 3
    /\ outcome[namespaces[3]] \in Reconciled /\ api[namespaces[3]].failed = 0

Cuts(s) == {0, Len(s) + 1} \cup {j \in 1..Len(s) : s[j] = ","}

\* The positions of the entry that starts after cut c, and those of them that
\* hold no blank.
EntryOf(s, c) ==
    LET d == CHOOSE x \in Cuts(s) : x > c /\ \A y \in Cuts(s) : y > c => x <= y
    IN  (c + 1)..(d - 1)
InkOf(s, c) == {j \in EntryOf(s, c) : s[j] # " "}

\* The entry after cut c without its surrounding blanks.
Trimmed(s, c) ==
    LET first == CHOOSE j \in InkOf(s, c) : \A m \in InkOf(s, c) : j <= m
        last  == CHOOSE j \in InkOf(s, c) : \A m \in InkOf(s, c) : j >= m
    IN  SubSeq(s, first, last)

\* The entries of s that are not empty after trimming, in their order.
ExpectedTargets(s) ==
    LET starts == {c \in Cuts(s) \ {Len(s) + 1} : InkOf(s, c) # {}}
        nth(k) == CHOOSE c \in starts : Cardinality({x \in starts : x < c}) = k - 1
    IN  [k \in 1..Cardinality(starts) |-> Trimmed(s, nth(k))]

\* C15: the target list parsed from a TARGET_NAMESPACES value is the sequence
\* of its comma-separated entries, each without its surrounding blanks, the
\* empty ones left out, in the original order, duplicates kept.
C15_ExplicitTargetParsing ==
    pc = "parsed" => namespaces = ExpectedTargets(env.targets)

\* C15's case: "a, ,b," resolves to a, b.
C15_Witness ==
    /\ pc = "parsed"
    /\ env.targets = <<"a", ",", " ", ",", "b", ",">>
    /\ namespaces = << <<"a">>, <<"b">> >>

\* TARGET_NAMESPACES names at least one namespace.
HasName(str) == \E k \in 1..Len(str) : str[k] \notin {",", " "}

\* C16: a run of the TARGET_NAMESPACES program whose TARGET_NAMESPACES names
\* namespaces never issues the namespace List, and its requests to the cluster
\* are Secret requests in the namespaces it names.
C16_ExplicitModeNeverLists ==
    (variant = "tn" /\ HasName(env.targets)) =>
        /\ listCalls = 0
        /\ \A n \in Namespaces :
             (\A k \in 1..Len(env.targets) : env.targets[k] # n) => api[n] = NoCalls

\* C16's case: TARGET_NAMESPACES = "a,b", both reconciled, nothing listed.
C16_Witness ==
    /\ variant = "tn" /\ env.targets = <<"a", ",", "b">>
    /\ pc = "exited" /\ exitCode = 0 /\ runErr = Nil
    /\ outcome["a"] \in Reconciled /\ outcome["b"] \in Reconciled
    /\ listCalls = 0 /\ api["c"] = NoCalls

\* C17: when TARGET_NAMESPACES is not empty but holds separators and blanks
\* only, the run issues no List and no Secret request, its target list is
\* empty, and once the token is fetched and the client built it ends with
\* exit 0 and without an error.
C17_EmptyAfterTrim ==
    (variant = "tn" /\ env.targets # <<>> /\ ~HasName(env.targets)) =>
        /\ listCalls = 0
        /\ \A n \in Namespaces : api[n] = NoCalls
        /\ namespaces = <<>>
        /\ (pc = "exited" /\ token \in Tokens /\ env.kube) => exitCode = 0 /\ runErr = Nil
        /\ pc = "exited" =>
             runErr.kind \notin {"list_namespaces", "interrupted", "get", "create", "patch"}

\* C17's case: TARGET_NAMESPACES = " , ", the run a success.
C17_Witness ==
    /\ variant = "tn" /\ env.targets = <<" ", ",", " ">>
    /\ pc = "exited" /\ exitCode = 0 /\ runErr = Nil
    /\ token \in Tokens /\ requests = 1
    /\ namespaces = <<>> /\ listCalls = 0

\* C18: without an explicit list the target list is the sequence of names the
\* cluster's List returned (one List, same names, same order); a run that ends
\* in success has reconciled each of them, and the cluster-wide program has
\* attempted each of them when manageSecretsClusterWide returns.
C18_ClusterDiscovery ==
    (EnvValid(env) /\ env.kube /\ env.targets = <<>>) =>
        /\ pc \in {"nsLoop", "get", "create", "update", "patch", "summary"} =>
             namespaces = clusterNs /\ listCalls = 1
        /\ (pc = "exited" /\ exitCode = 0 /\ runErr = Nil) =>
             /\ namespaces = clusterNs /\ listCalls = 1
             /\ \A k \in 1..Len(clusterNs) : outcome[clusterNs[k]] \in Reconciled
        /\ (pc = "exited" /\ runErr.kind = "completed_with_errors") =>
             /\ namespaces = clusterNs
             /\ \A k \in 1..Len(clusterNs) : api[clusterNs[k]].get >= 1

\* C18's case: the List returns c, a; the run reconciles c, then a.
C18_Witness ==
    /\ variant = "tn" /\ env.targets = <<>>
    /\ clusterNs = <<"c", "a">>
    /\ pc = "exited" /\ exitCode = 0 /\ runErr = Nil
    /\ namespaces = <<"c", "a">>
    /\ outcome["c"] \in Reconciled /\ outcome["a"] \in Reconciled
    /\ api["b"] = NoCalls

\* C19: when a run has ended on a failed namespace List (an error of the
\* API server, a timeout, or the List cut short by the shutdown signal), the
\* List had been tried 3 times, the exit code is not 0, no Secret request was
\* issued, and no explicit list was configured.
C19_ListingFailureAfterRetries ==
    (/\ pc = "exited"
     /\ \/ runErr.kind = "list_namespaces"
        \/ runErr.kind = "interrupted" /\ listCalls > 0 /\ namespaces = <<>>) =>
        /\ listCalls = 3
        /\ exitCode # 0
        /\ \A n \in Namespaces : api[n] = NoCalls
        /\ env.targets = <<>>

(***************************************************************************)
(* Properties of the configuration (under SpecSingle and Spec)             *)
(***************************************************************************)
\* A required setting is missing, or the client-secret file is missing or
\* cannot be read.
ConfigError(e) == ~e.url \/ ~e.clientId \/ e.secret # "ok"

\* C20: with a configuration error the run sends no token request and no
\* request to the cluster, and its exit code is not 0.
C20_ConfigErrorsPrecedeNetwork ==
    ConfigError(env) =>
        /\ requests = 0
        /\ listCalls = 0
        /\ \A n \in Namespaces : api[n] = NoCalls
        /\ sleeps = <<>>
        /\ pc = "exited" => exitCode # 0

(***************************************************************************)
(* Properties of the token request (under SpecToken and SpecSingle)        *)
(***************************************************************************)
HasScopeField == \E f \in form : f[1] = "scope"

\* C21: the token request carries a scope field if and only if the configured
\* scope is a non-empty string: a scope set to "openid" is sent as it is, a
\* scope set to the empty string is left out, and so is a scope that is not
\* set unless the program has a default scope (OIDC_SCOPES, "openid").
C21_ScopeField ==
    form # {} =>
        /\ scope = "openid" => <<"scope", "openid">> \in form
        /\ scope = "" => ~HasScopeField
        /\ scope = "unset" =>
             IF variant = "tn" THEN <<"scope", "openid">> \in form ELSE ~HasScopeField

\* The Secret of namespace n is what one complete create or patch of this run
\* leaves: it exists, holds the run's token under the managed key, and has
\* whatever else the namespace's Secret had when the run began.
CompleteWrite(n) ==
    /\ secrets[n].exists
    /\ secrets[n].token = token
    /\ secrets[n].extra = initial[n].extra
    /\ secrets[n].managedBy = initial[n].managedBy

\* C22: cancellation in processSecretsInNamespaces. Once the signal has
\* cancelled the context, the loop starts no further namespace: at the top of
\* the loop the run ends, and a Secret request is only ever issued for the
\* namespace the loop is already in. Whatever the signal's timing, every
\* namespace's Secret is either as the run found it or the result of one
\* complete create or patch.
C22_Cancellation ==
    [][variant = "tn" =>
        /\ (cancelled /\ pc = "nsLoop") => (pc' = "exited" /\ api' = api /\ secrets' = secrets)
        /\ \A n \in Namespaces :
              (cancelled /\ api'[n] # api[n]) =>
                  (pc \in {"get", "create", "patch"} /\ n = namespaces[idx])
        /\ \A n \in Namespaces : secrets'[n] = initial'[n] \/ CompleteWrite(n)']_vars

\* A run the signal stopped between two namespaces: one reconciled, a later one
\* never touched.
C22_Witness ==
    /\ variant = "tn" /\ cancelled /\ pc = "exited"
    /\ runErr # Nil /\ runErr.kind = "interrupted"
    /\ \E j, k \in 1..Len(namespaces) :
          /\ j < k
          /\ outcome[namespaces[j]] \in Reconciled
          /\ namespaces[k] # namespaces[j]
          /\ api[namespaces[k]] = NoCalls
          /\ secrets[namespaces[k]] = initial[namespaces[k]]

\* C24: the patch frame of createOrUpdateSecret. A Patch that succeeds leaves
\* an existing Secret with the run's token under the managed key and with
\* every other data key and every label as they were; a Patch that fails
\* changes nothing; no Patch touches another namespace's Secret.
C24_PatchFrame ==
    [][\A n \in Namespaces :
          api'[n].patch = api[n].patch + 1 =>
              /\ secrets[n].exists /\ secrets'[n].exists
              /\ secrets'[n].extra = secrets[n].extra
              /\ secrets'[n].managedBy = secrets[n].managedBy
              /\ IF api'[n].failed = api[n].failed
                 THEN secrets'[n].token = token
                 ELSE secrets'[n].token = secrets[n].token
              /\ \A m \in Namespaces \ {n} : secrets'[m] = secrets[m]]_vars

\* A Secret of another tool after its patch: the new token, its own key and
\* its own label.
C24_Witness ==
    /\ variant = "tn" /\ token = "t2"
    /\ \E n \in Targets :
          /\ api[n].patch = 1 /\ api[n].failed = 0
          /\ initial[n] = Prior
          /\ secrets[n] = [exists |-> TRUE, token |-> "t2", extra |-> "x", managedBy |-> "other"]

\* The runs of Spec on clusters whose namespaces are alike: none has the
\* Secret, or each has another tool's.
InitLive ==
    /\ Init
    /\ secrets \in {[n \in Namespaces |-> NoSecret], [n \in Namespaces |-> Prior]}

\* A process is scheduled until it exits, and every call it makes returns: no
\* step that is possible is put off forever.
SpecLive == InitLive /\ [][Next]_vars /\ WF_vars(Next)

\* The number of entries of the target list that name n.
Occurrences(n) == Cardinality({k \in 1..Len(namespaces) : namespaces[k] = n})

\* C25: termination. Every invocation reaches its exit, and on its way it sends
\* at most 3 token requests, lists the namespaces at most once, and makes at
\* most 3 reconcile attempts (each begun by a Get) for every entry of the
\* target list.
C25_Termination ==
    /\ <>(pc = "exited")
    /\ [](/\ requests <= maxRetries
          /\ listCalls <= 1
          /\ \A n \in Namespaces : api[n].get <= maxRetries * Occurrences(n))

\* An exit after 3 token requests, one listing and 3 attempts on a namespace.
C25_Witness ==
    /\ pc = "exited" /\ exitCode # Running
    /\ requests = maxRetries /\ listCalls = 1
    /\ \E n \in Targets : api[n].get = maxRetries /\ Occurrences(n) = 1

\* C26: create only on not-found. A Create is about to be issued only when the
\* preceding Get reported that the Secret does not exist, an Update or a Patch
\* only when it found the Secret; after any other Get error the attempt issues
\* no Create, Update or Patch.
C26_CreateOnlyOnNotFound ==
    /\ pc = "create" => getErr = "NotFound"
    /\ pc \in {"update", "patch"} => getErr = ""

\* C27: write ordering. A Secret Create, Update or Patch is issued only after
\* the token was fetched and the target list resolved, and only for a namespace
\* of that list; once the token is fetched, no further token request is sent
\* and the token stays what it is; every write that takes effect stores that
\* token.
C27_WriteOrdering ==
    [][/\ \A n \in Namespaces :
             Writes(n)' > Writes(n) =>
                 /\ token \in Tokens /\ token' = token
                 /\ n \in Targets /\ namespaces' = namespaces
                 /\ (ListsCluster(variant, env) => listCalls = 1)
                 /\ (secrets'[n] # secrets[n] => secrets'[n].token = token)
       /\ \A n \in Namespaces : secrets'[n] # secrets[n] => Writes(n)' > Writes(n)
       /\ token # "" => (token' = token /\ requests' = requests)]_vars

\* A run whose token came with the second request and was written.
C27_Witness ==
    /\ pc = "exited" /\ requests = 2 /\ token = "t2" /\ listCalls = 1
    /\ \E n \in Targets : Writes(n) = 1 /\ secrets[n].token = "t2" /\ initial[n].token = "t1"

\* The outcomes a namespace ends in.
Terminal == Reconciled \cup {"failed"}

\* C28 as stated: a namespace whose outcome is terminal sees no further API
\* operation in the run and keeps its outcome.
C28_StateMachine ==
    [][\A n \in Namespaces :
          /\ outcome'[n] \in Terminal \cup {"pending"}
          /\ outcome[n] \in Terminal => (outcome'[n] = outcome[n] /\ api'[n] = api[n])]_vars

\* The target list names namespace n again at the loop's position.
NamedAgain(n) ==
    /\ variant = "tn" /\ pc \in {"get", "create", "patch"}
    /\ idx \in 1..Len(namespaces) /\ namespaces[idx] = n
    /\ \E k \in 1..(idx - 1) : namespaces[k] = n

\* Every list entry the loop has passed has a terminal outcome; a namespace the
\* list does not name is pending and has seen no request.
PassedAreTerminal ==
    /\ \A k \in 1..Len(namespaces) : k < idx => outcome[namespaces[k]] \in Terminal
    /\ \A n \in Namespaces \ Targets : outcome[n] = "pending" /\ api[n] = NoCalls

\* C28, amended: a namespace starts pending and every pass of the loop over it
\* ends in exactly one terminal outcome; no outcome returns to pending; a
\* terminal outcome changes, and a further API operation is issued for its
\* namespace, only where TARGET_NAMESPACES names the namespace again, and
\* never after failed.
C28_StateMachinePerOccurrence ==
    [][/\ \A n \in Namespaces :
             /\ outcome'[n] \in Terminal \cup {"pending"}
             /\ outcome[n] \in Terminal => outcome'[n] \in Terminal
             /\ (outcome[n] \in Terminal /\ (outcome'[n] # outcome[n] \/ api'[n] # api[n]))
                   => (NamedAgain(n) /\ outcome[n] # "failed")
       /\ PassedAreTerminal']_vars

\* A namespace named twice: created at its first occurrence, patched at its
\* second.
C28_Witness ==
    /\ variant = "tn" /\ pc = "exited" /\ exitCode = 0
    /\ namespaces = <<"b", "b">>
    /\ outcome["b"] = "updated"
    /\ api["b"] = [get |-> 2, create |-> 1, update |-> 0, patch |-> 1, failed |-> 0]

\* Namespace n fails: each of withRetries' attempts on it failed.
Fails(n) == api[n].failed >= maxRetries

\* What a run of manageSecretsClusterWide leaves of namespace n, told from the
\* namespace's own data alone: the Secret the run found, the token, and whether
\* the namespace fails. The list's order and the other namespaces do not occur.
OutcomeOf(n) ==
    IF Fails(n) THEN "failed" ELSE IF initial[n].exists THEN "updated" ELSE "created"

SecretOf(n) ==
    IF Fails(n) THEN initial[n]
    ELSE [exists |-> TRUE, token |-> token, extra |-> "", managedBy |-> appName]

\* C29: order-insensitivity under aggregate-and-continue. Whatever the order of
\* the listing and whichever namespaces fail, every listed namespace's outcome
\* and final Secret are those its own data determine, the reported errors are,
\* as a set, the namespaces that fail, and the order in which they are listed
\* is the listing's.
C29_OrderInsensitive ==
    (variant = "cw" /\ pc = "exited" /\ runErr.kind \in {"nil", "completed_with_errors"}) =>
        /\ \A n \in Targets : outcome[n] = OutcomeOf(n) /\ secrets[n] = SecretOf(n)
        /\ \A n \in Namespaces \ Targets : outcome[n] = "pending" /\ secrets[n] = initial[n]
        /\ {runErr.list[k] : k \in 1..Len(runErr.list)} = {n \in Targets : Fails(n)}

\* Two namespaces in the order b, a: b fails, a is reconciled after it.
C29_Witness ==
    /\ variant = "cw" /\ pc = "exited"
    /\ namespaces = <<"b", "a">>
    /\ Fails("b") /\ outcome["b"] = "failed" /\ secrets["b"] = Prior
    /\ api["a"].failed = 2 /\ outcome["a"] = "created" /\ secrets["a"].token = token
    /\ runErr.list = <<"b">>

\* C30: a response of status 200 whose body cannot be decoded, or whose
\* access_token is missing or empty, ends getOIDCToken's loop: it is the last
\* request of the call, whatever the attempts left, and getOIDCToken returns
\* an error and no token.
C30_Malformed200NotRetried ==
    variant = "cw" =>
        \A k \in 1..Len(httpLog) :
            (~httpLog[k].err /\ httpLog[k].status = StatusOK /\ ~CarriesToken(httpLog[k])) =>
                /\ k = Len(httpLog) /\ requests = k
                /\ pc \in {"afterLoop", "tokenReturned"}
                /\ pc = "tokenReturned" =>
                      /\ ret.token = ""
                      /\ ret.err.kind = IF JsonDecode(httpLog[k].body).err
                                        THEN "decode" ELSE "empty_token"

\* A 200 with an undecodable body as the answer to the second request.
C30_Witness ==
    /\ variant = "cw" /\ pc = "tokenReturned" /\ Len(httpLog) = 2
    /\ httpLog[1].status = 500
    /\ httpLog[2] = [err |-> FALSE, status |-> StatusOK, body |-> "oops"]
    /\ ret.err.kind = "decode" /\ sleeps = <<2>>

\* The response carries no access_token: no response at all, a body that is
\* no JSON, or a JSON object whose access_token is missing or empty.
NoAccessToken(r) == r.err \/ JsonDecode(r.body).err \/ JsonDecode(r.body).AccessToken = ""

\* C31: the get-token script. When the endpoint's response carries no
\* access_token, the script, once past its check of TOKEN, has exited with
\* status 1 and has sent no request for the oidc-jwt Secret; and a Secret that
\* the script changed holds a token that the endpoint's response carried.
C31_ShellNoTokenNoSecret ==
    (variant = "sh" /\ Len(httpLog) = 1 /\ pc \in {"apply", "exited"}) =>
        /\ NoAccessToken(httpLog[1]) =>
              /\ pc = "exited" /\ exitCode = 1
              /\ api = [n \in Namespaces |-> NoCalls]
              /\ secrets = initial
        /\ \A n \in Namespaces :
              secrets[n] # initial[n] =>
                  /\ secrets[n].token \in Tokens
                  /\ httpLog[1].body = TokenJSON(secrets[n].token)

(***************************************************************************)
(* Properties of successive runs (under SpecCron)                          *)
(***************************************************************************)
\* C3: when the previous run of the cluster-wide program created the Secret of
\* n (manageNamespaceSecret: created) and this run reconciles n with the same
\* token, the outcome is unchanged and this run has issued no Create, Update
\* or Patch for n.
C3_Idempotent ==
    \A n \in Namespaces :
        (/\ variant = "cw"
         /\ prev.outcome[n] = "created"
         /\ token \in Tokens /\ prev.token = token
         /\ outcome[n] \in Reconciled) =>
            /\ outcome[n] = "unchanged"
            /\ Writes(n) = 0

\* C4: when the previous run created the Secret of n with one token and this
\* run reconciles n with another, the outcome is updated and the Secret's
\* managed key holds the new token and not the old one.
C4_ChangeDetection ==
    \A n \in Namespaces :
        (/\ prev.outcome[n] = "created"
         /\ token \in Tokens /\ prev.token # token
         /\ outcome[n] \in Reconciled) =>
            /\ outcome[n] = "updated"
            /\ Holds(n, token)
            /\ ~Holds(n, prev.token)

\* C4's case: created with t1, then updated to t2.
C4_Witness ==
    /\ run = 2 /\ prev.token = "t1" /\ prev.outcome["a"] = "created"
    /\ token = "t2" /\ outcome["a"] = "updated"
    /\ Holds("a", "t2")

====
